---- MODULE Spec2Model ----
(***************************************************************************)
(* Model of netmd-commands.ts: the status decoder (getDeviceStatus), the   *)
(* content model builder (countTracksInDisc, getTracks, listContent) and   *)
(* the secure download sequence (download).                                *)
(***************************************************************************)
EXTENDS Integers, Sequences, FiniteSets, TLC

VARIABLES
    \* ---- getDeviceStatus ----
    devStatus,          \* the status bytes the device answers getStatus() with
    devPlaybackStatus2, \* the bytes the device answers getPlaybackStatus2() with
    devPosition,        \* what the device answers getPosition() with (tuple or null)
    devChanges,         \* how often the device changed these while a query was running
    status,            \* bytes returned by mdIface.getStatus()
    playbackStatus2,   \* bytes returned by mdIface.getPlaybackStatus2()
    position,          \* value returned by mdIface.getPosition() (tuple or null)
    operatingStatus,   \* local of getDeviceStatus
    deviceStatus,      \* the DeviceStatus returned
    dsPc,              \* position of getDeviceStatus
    dsError,           \* the read whose failure getDeviceStatus threw, or "none"
    dsReads            \* the device reads getDeviceStatus issued so far, with their outcome

statusVars == <<devStatus, devPlaybackStatus2, devPosition, devChanges, status, playbackStatus2,
               position, operatingStatus, deviceStatus, dsPc, dsError, dsReads>>

VARIABLES
    \* ---- listContent, countTracksInDisc, getTracks ----
    devDisc,           \* what the device answers to the four disc-level reads
    devGroupList,      \* what the device answers to getTrackGroupList()
    lcPc,              \* position of listContent
    lc,                \* locals of listContent
    disc,              \* the Disc under construction (local `disc`)
    lcError,           \* the read whose failure listContent threw, or "none"
    lcReads,           \* the device reads listContent issued so far, with their outcome
    lcReturn,          \* the Disc the caller received, NoDisc before
    trackCountResult,  \* countTracksInDisc(lcReturn)
    tracksResult       \* getTracks(lcReturn)

contentVars == <<devDisc, devGroupList, lcPc, lc, disc, lcError, lcReads, lcReturn,
                 trackCountResult, tracksResult>>

VARIABLES
    \* ---- download, one entry per running download ----
    dlPc,              \* position of download
    dlTrack,           \* the MDTrack argument
    dlObserver,        \* whether a progressCallback was passed
    reports,           \* the progress reports the callback received, in order
    calls,             \* device and session operations invoked so far, with their outcome
    session,           \* the MDSession of this download: none, uninitialized, keyed, closed
    produced,          \* [trk, uuid, ccid] as downloadTrack returned them
    dlError,           \* the operation whose error download threw, or "none"
    dlResult           \* what download returned, <<>> before

downloadVars == <<dlPc, dlTrack, dlObserver, reports, calls, session, produced, dlError, dlResult>>

VARIABLES
    \* ---- the device behind mdIface ----
    device             \* who holds exclusive control, the session key, the secure session

vars == <<statusVars, contentVars, downloadVars, device>>

(***************************************************************************)
(* JavaScript values                                                       *)
(***************************************************************************)
\* `undefined`, the value of an out-of-range index read
Undef == -1
\* `null`
Null == -2

\* buf[i] with i a 0-based index: undefined beyond the end
Get(buf, i) == IF i + 1 \in DOMAIN buf THEN buf[i + 1] ELSE Undef

\* ToInt32 of a value used as a bitwise operand: undefined becomes 0.  The
\* operands here are bytes and bytes shifted by 8, far from the 32-bit limit.
ToInt32(v) == IF v = Undef THEN 0 ELSE v

\* a << n
RECURSIVE ShiftLeft(_, _)
ShiftLeft(a, n) == IF n = 0 THEN ToInt32(a) ELSE ShiftLeft(ToInt32(a) * 2, n - 1)

\* number of bits the bitwise operators walk over: enough for every operand
BitWidth == 24

\* a | b, bit by bit
RECURSIVE BitOrBits(_, _, _)
BitOrBits(a, b, n) ==
    IF n = 0 THEN 0
    ELSE (IF (a % 2 = 1) \/ (b % 2 = 1) THEN 1 ELSE 0) + 2 * BitOrBits(a \div 2, b \div 2, n - 1)

BitOr(a, b) == BitOrBits(ToInt32(a), ToInt32(b), BitWidth)

(***************************************************************************)
(* Bounds and input sets of the status decoder                             *)
(***************************************************************************)
MaxBufLen == 6
MaxDeviceChanges == 1

StatusBytes == {0, 64, 65}
\* bytes 4 and 5 of a playback status: the five table codes, 12345, 0, and
\* two codes that are a table code with its bytes swapped or mixed
PlaybackPairs == { <<197, 255>>, <<195, 117>>, <<195, 63>>, <<195, 79>>, <<255, 35>>,
                   <<48, 57>>, <<0, 0>>, <<255, 197>>, <<195, 255>> }

\* a buffer of n bytes, zero except at offsets 4 and 5
BufOf(n, b4, b5) == [i \in 1..n |-> IF i = 5 THEN b4 ELSE IF i = 6 THEN b5 ELSE 0]

StatusBufs == { BufOf(n, b, 0) : n \in 0..MaxBufLen, b \in StatusBytes }
PlaybackBufs == { BufOf(n, pair[1], pair[2]) : n \in 0..MaxBufLen, pair \in PlaybackPairs }

NullPosition == [isNull |-> TRUE, tuple |-> <<>>]
Positions == {NullPosition}
             \cup { [isNull |-> FALSE, tuple |-> <<t, 0, m, 59, 7>>] : t \in {0, 3}, m \in {0, 1} }

(***************************************************************************)
(* getDeviceStatus                                                         *)
(***************************************************************************)
\* the OperatingStatus table
OperatingStatus ==
    [c \in {50687, 50037, 49983, 49999, 65315} |->
        CASE c = 50687 -> "ready"
          [] c = 50037 -> "playing"
          [] c = 49983 -> "fastForward"
          [] c = 49999 -> "rewind"
          [] c = 65315 -> "readingTOC"]

OperatingStatusSwapped(b1, b2) == BitOr(ShiftLeft(b2, 8), b1)
ComputeOperatingStatus(b1, b2) == BitOr(ShiftLeft(b1, 8), b2)

LookupState(os) == IF os \in DOMAIN OperatingStatus THEN OperatingStatus[os] ELSE "unknown"

NormalizeStateNever(state, discPresent) == state
NormalizeState(state, discPresent) ==
    IF state = "playing" /\ ~discPresent THEN "ready" ELSE state

NullTime == [isNull |-> TRUE, minute |-> Null, second |-> Null, frame |-> Null]

DecodeStatus(st, pb, pos) ==
    LET os == ComputeOperatingStatus(Get(pb, 4), Get(pb, 5))
        track == IF ~pos.isNull THEN Get(pos.tuple, 0) ELSE Null
        discPresent == Get(st, 4) = 64
        time == IF ~pos.isNull
                THEN [isNull |-> FALSE, minute |-> Get(pos.tuple, 2),
                      second |-> Get(pos.tuple, 3), frame |-> Get(pos.tuple, 4)]
                ELSE NullTime
    IN [discPresent |-> discPresent,
        state |-> NormalizeState(LookupState(os), discPresent),
        track |-> track,
        time |-> time]

NoStatus == [discPresent |-> FALSE, state |-> "unknown", track |-> Null, time |-> NullTime]

(***************************************************************************)
(* The device behind the command interface                                 *)
(***************************************************************************)
\* owner of device-side state left behind by an earlier run
PreviousRun == 3

CleanDevice == [exclusive |-> 0, sessionKey |-> 0, secureSession |-> 0]
StaleDevice == [exclusive |-> 0, sessionKey |-> PreviousRun, secureSession |-> PreviousRun]
InitialDevices == {CleanDevice, StaleDevice}

\* what a command of download p does to the device when it succeeds; a
\* failed command and every other command leave it as it was
DeviceEffect(dev, p, op, ok) ==
    IF ~ok THEN dev
    ELSE CASE op = "sessionKeyForget" -> [dev EXCEPT !.sessionKey = 0]
           [] op = "leaveSecureSession" -> [dev EXCEPT !.secureSession = 0]
           [] op = "acquire" -> [dev EXCEPT !.exclusive = p]
           [] op = "release" -> [dev EXCEPT !.exclusive = 0]
           [] op = "sessionInit" -> [dev EXCEPT !.sessionKey = p, !.secureSession = p]
           [] op = "sessionClose" -> [dev EXCEPT !.sessionKey = 0, !.secureSession = 0]
           [] OTHER -> dev

StatusIdle ==
    /\ devStatus = <<>>
    /\ devPlaybackStatus2 = <<>>
    /\ devPosition = NullPosition
    /\ devChanges = 0
    /\ status = <<>>
    /\ playbackStatus2 = <<>>
    /\ position = NullPosition
    /\ operatingStatus = 0
    /\ deviceStatus = NoStatus
    /\ dsPc = "idle"
    /\ dsError = "none"
    /\ dsReads = <<>>

(***************************************************************************)
(* Bounds and device data of the content model builder                     *)
(***************************************************************************)
MaxGroups == 2
MaxGroupLen == 2
MaxTrackIndex == 2

RECURSIVE SeqsUpTo(_, _)
\* all sequences over S of length at most n
SeqsUpTo(S, n) ==
    IF n = 0 THEN {<<>>}
    ELSE LET shorter == SeqsUpTo(S, n - 1)
         IN shorter \cup { Append(q, x) : q \in { r \in shorter : Len(r) = n - 1 }, x \in S }

\* group names: null or a title
GroupNames == {Null, 7}
TrackLists == SeqsUpTo(0..MaxTrackIndex, MaxGroupLen)
\* an entry of the track group list is the pair [groupName, trackLists]
GroupEntries == { <<name, tl>> : name \in GroupNames, tl \in TrackLists }
TrackGroupLists == SeqsUpTo(GroupEntries, MaxGroups)

\* answers to getDiscFlags, getDiscTitle, getDiscCapacity, getTrackCount
DiscHeaders ==
    { [flags |-> 16, title |-> 11, capacity |-> << <<1, 2, 10>>, <<80, 0, 0>>, <<78, 57, 65>> >>, trackCount |-> 3],
      [flags |-> 80, title |-> 12, capacity |-> << <<0, 0, 0>>, <<74, 0, 0>>, <<74, 0, 0>> >>, trackCount |-> 0] }

\* answers to the per-track reads
DevTrackTitle(t) == IF t % 2 = 0 THEN 100 + t ELSE Null
DevTrackEncoding(t) == IF t % 2 = 0 THEN <<144, 0>> ELSE <<146, 1>>
DevTrackLength(t) == <<t, 2, 10>>
DevTrackFlags(t) == IF t = 0 THEN 3 ELSE 0

(***************************************************************************)
(* Helpers of listContent                                                  *)
(***************************************************************************)
DiscFlagWritable == 16
DiscFlagWriteProtected == 64

\* a & b, bit by bit
RECURSIVE BitAndBits(_, _, _)
BitAndBits(a, b, n) ==
    IF n = 0 THEN 0
    ELSE (IF (a % 2 = 1) /\ (b % 2 = 1) THEN 1 ELSE 0) + 2 * BitAndBits(a \div 2, b \div 2, n - 1)

BitAnd(a, b) == BitAndBits(ToInt32(a), ToInt32(b), BitWidth)

\* frames = minutes*60*75 + seconds*75 + frames-within-second
TimeToFrames(time) == time[1] * 60 * 75 + time[2] * 75 + time[3]

(***************************************************************************)
(* countTracksInDisc, getTracks                                            *)
(***************************************************************************)
RECURSIVE SumGroupLens(_, _)
\* groups.reduce((acc, g) => acc + g.tracks.length, acc)
SumGroupLens(groups, acc) ==
    IF groups = <<>> THEN acc
    ELSE SumGroupLens(Tail(groups), acc + Len(Head(groups).tracks))

CountGroups(d) == Len(d.groups)
countTracksInDisc(d) == SumGroupLens(d.groups, 0)

RECURSIVE PushAll(_, _)
\* for (let track of group.tracks) tracks.push(track)
PushAll(tracks, groupTracks) ==
    IF groupTracks = <<>> THEN tracks
    ELSE PushAll(Append(tracks, Head(groupTracks)), Tail(groupTracks))

RECURSIVE PushGroups(_, _)
\* for (let group of disc.groups) ...
PushGroups(tracks, groups) ==
    IF groups = <<>> THEN tracks
    ELSE PushGroups(PushAll(tracks, Head(groups).tracks), Tail(groups))

getTracks(d) == PushGroups(<<>>, d.groups)

(***************************************************************************)
(* listContent                                                             *)
(***************************************************************************)
NoDisc == [title |-> Undef, writable |-> FALSE, writeProtected |-> FALSE,
           used |-> Undef, left |-> Undef, total |-> Undef,
           trackCount |-> Undef, groups |-> <<>>]

NoLocals == [flags |-> Undef, title |-> Undef, capacity |-> <<>>, trackCount |-> Undef,
             trackGroupList |-> <<>>, groupIndex |-> 0, trackIndex |-> 0, tracks |-> <<>>,
             tTitle |-> Undef, codec |-> Undef, channel |-> Undef, duration |-> Undef]

ContentIdle ==
    /\ devDisc = [flags |-> 0, title |-> Null, capacity |-> << <<0, 0, 0>>, <<0, 0, 0>>, <<0, 0, 0>> >>, trackCount |-> 0]
    /\ devGroupList = <<>>
    /\ lcPc = "idle"
    /\ lc = NoLocals
    /\ disc = NoDisc
    /\ lcError = "none"
    /\ lcReads = <<>>
    /\ lcReturn = NoDisc
    /\ trackCountResult = Undef
    /\ tracksResult = <<>>

\* the read is issued and answers, or fails
LcRead(read, ok) == lcReads' = Append(lcReads, [op |-> read, ok |-> ok])

LcThrowReturnsPartial(read) ==
    /\ lcPc' = "returned"
    /\ lcReturn' = disc
    /\ LcRead(read, FALSE)
    /\ UNCHANGED <<devDisc, devGroupList, lc, disc, lcError, trackCountResult, tracksResult, device>>

\* a device read that fails: listContent throws and stops there
LcThrow(read) ==
    /\ lcPc' = "threw"
    /\ lcError' = read
    /\ LcRead(read, FALSE)
    /\ UNCHANGED <<devDisc, devGroupList, lc, disc, lcReturn, trackCountResult, tracksResult, device>>

\* the rest of the state after a step of listContent that did not throw
LcKeep == UNCHANGED <<devDisc, devGroupList, lcError, lcReturn, trackCountResult, tracksResult, device>>

LcGetDiscFlags ==
    /\ lcPc = "getDiscFlags"
    /\ \/ /\ lc' = [lc EXCEPT !.flags = devDisc.flags]
          /\ lcPc' = "getDiscTitle"
          /\ UNCHANGED disc
          /\ LcRead("getDiscFlags", TRUE)
          /\ LcKeep
       \/ LcThrow("getDiscFlags")

LcGetDiscTitle ==
    /\ lcPc = "getDiscTitle"
    /\ \/ /\ lc' = [lc EXCEPT !.title = devDisc.title]
          /\ lcPc' = "getDiscCapacity"
          /\ UNCHANGED disc
          /\ LcRead("getDiscTitle", TRUE)
          /\ LcKeep
       \/ LcThrow("getDiscTitle")

LcGetDiscCapacity ==
    /\ lcPc = "getDiscCapacity"
    /\ \/ /\ lc' = [lc EXCEPT !.capacity = devDisc.capacity]
          /\ lcPc' = "getTrackCount"
          /\ UNCHANGED disc
          /\ LcRead("getDiscCapacity", TRUE)
          /\ LcKeep
       \/ LcThrow("getDiscCapacity")

\* [discUsed, discTotal, discLeft] = capacity; the Disc literal of lines 167-176
NewDisc(l, trackCount) ==
    [title |-> l.title,
     writable |-> BitAnd(l.flags, DiscFlagWritable) # 0,
     writeProtected |-> BitAnd(l.flags, DiscFlagWriteProtected) # 0,
     used |-> TimeToFrames(l.capacity[1]),
     left |-> TimeToFrames(l.capacity[3]),
     total |-> TimeToFrames(l.capacity[2]),
     trackCount |-> trackCount,
     groups |-> <<>>]

LcGetTrackCount ==
    /\ lcPc = "getTrackCount"
    /\ \/ /\ lc' = [lc EXCEPT !.trackCount = devDisc.trackCount]
          /\ disc' = NewDisc(lc, devDisc.trackCount)
          /\ lcPc' = "getTrackGroupList"
          /\ LcRead("getTrackCount", TRUE)
          /\ LcKeep
       \/ LcThrow("getTrackCount")

LcGetTrackGroupList ==
    /\ lcPc = "getTrackGroupList"
    /\ \/ /\ lc' = [lc EXCEPT !.trackGroupList = devGroupList, !.groupIndex = 0]
          /\ lcPc' = "groupLoop"
          /\ UNCHANGED disc
          /\ LcRead("getTrackGroupList", TRUE)
          /\ LcKeep
       \/ LcThrow("getTrackGroupList")

\* the Group literal of lines 181-185
NewGroup(groupIndex, entry) == [index |-> groupIndex, title |-> entry[1], tracks |-> <<>>]

\* head of the outer loop: the next entry of trackGroupList, or return disc
LcGroupLoop ==
    /\ lcPc = "groupLoop"
    /\ \/ /\ lc.groupIndex < Len(lc.trackGroupList)
          /\ disc' = [disc EXCEPT !.groups =
                         Append(@, NewGroup(lc.groupIndex, lc.trackGroupList[lc.groupIndex + 1]))]
          /\ lc' = [lc EXCEPT !.tracks = <<>>, !.trackIndex = 0]
          /\ lcPc' = "trackLoop"
          /\ UNCHANGED lcReturn
       \/ /\ lc.groupIndex >= Len(lc.trackGroupList)
          /\ lcReturn' = disc
          /\ lcPc' = "returned"
          /\ UNCHANGED <<lc, disc>>
    /\ UNCHANGED <<devDisc, devGroupList, lcError, lcReads, trackCountResult, tracksResult, device>>

\* trackLists of the current entry, and the track index the inner loop is at
LcTrackLists == lc.trackGroupList[lc.groupIndex + 1][2]
LcTrack == LcTrackLists[lc.trackIndex + 1]

\* head of the inner loop: the next track, or g.tracks = g.tracks.concat(tracks)
LcTrackLoop ==
    /\ lcPc = "trackLoop"
    /\ \/ /\ lc.trackIndex < Len(LcTrackLists)
          /\ lcPc' = "getTrackTitle"
          /\ UNCHANGED <<lc, disc>>
       \/ /\ lc.trackIndex >= Len(LcTrackLists)
          /\ disc' = [disc EXCEPT !.groups[lc.groupIndex + 1].tracks = @ \o lc.tracks]
          /\ lc' = [lc EXCEPT !.groupIndex = @ + 1]
          /\ lcPc' = "groupLoop"
    /\ UNCHANGED lcReads
    /\ LcKeep

LcGetTrackTitle ==
    /\ lcPc = "getTrackTitle"
    /\ \/ /\ lc' = [lc EXCEPT !.tTitle = DevTrackTitle(LcTrack)]
          /\ lcPc' = "getTrackEncoding"
          /\ UNCHANGED disc
          /\ LcRead("getTrackTitle", TRUE)
          /\ LcKeep
       \/ LcThrow("getTrackTitle")

LcGetTrackEncoding ==
    /\ lcPc = "getTrackEncoding"
    /\ \/ /\ lc' = [lc EXCEPT !.codec = DevTrackEncoding(LcTrack)[1],
                              !.channel = DevTrackEncoding(LcTrack)[2]]
          /\ lcPc' = "getTrackLength"
          /\ UNCHANGED disc
          /\ LcRead("getTrackEncoding", TRUE)
          /\ LcKeep
       \/ LcThrow("getTrackEncoding")

LcGetTrackLength ==
    /\ lcPc = "getTrackLength"
    /\ \/ /\ lc' = [lc EXCEPT !.duration = TimeToFrames(DevTrackLength(LcTrack))]
          /\ lcPc' = "getTrackFlags"
          /\ UNCHANGED disc
          /\ LcRead("getTrackLength", TRUE)
          /\ LcKeep
       \/ LcThrow("getTrackLength")

NewTrackByPosition(l, track, flags) ==
    [index |-> l.trackIndex, title |-> l.tTitle, duration |-> l.duration,
     channel |-> l.channel, encoding |-> l.codec, protected |-> flags]
\* the Track literal of lines 194-201
NewTrack(l, track, flags) ==
    [index |-> track, title |-> l.tTitle, duration |-> l.duration,
     channel |-> l.channel, encoding |-> l.codec, protected |-> flags]

LcGetTrackFlags ==
    /\ lcPc = "getTrackFlags"
    /\ \/ /\ lc' = [lc EXCEPT !.tracks = Append(@, NewTrack(lc, LcTrack, DevTrackFlags(LcTrack))),
                              !.trackIndex = @ + 1]
          /\ lcPc' = "trackLoop"
          /\ UNCHANGED disc
          /\ LcRead("getTrackFlags", TRUE)
          /\ LcKeep
       \/ LcThrow("getTrackFlags")

\* a caller applies both helpers to the Disc it received
InspectDisc ==
    /\ lcPc = "returned"
    /\ trackCountResult' = countTracksInDisc(lcReturn)
    /\ tracksResult' = getTracks(lcReturn)
    /\ lcPc' = "inspected"
    /\ UNCHANGED <<devDisc, devGroupList, lc, disc, lcError, lcReads, lcReturn, device>>

NextContent ==
    /\ \/ LcGetDiscFlags
       \/ LcGetDiscTitle
       \/ LcGetDiscCapacity
       \/ LcGetTrackCount
       \/ LcGetTrackGroupList
       \/ LcGroupLoop
       \/ LcTrackLoop
       \/ LcGetTrackTitle
       \/ LcGetTrackEncoding
       \/ LcGetTrackLength
       \/ LcGetTrackFlags
       \/ InspectDisc
    /\ UNCHANGED <<statusVars, downloadVars>>


(***************************************************************************)
(* download                                                                *)
(***************************************************************************)
\* downloads that may run against the device; Spec runs the first one
Downloads == {1, 2}

MaxNewTrack == 1
MDTracks == {21, 22}
Uuids == {31, 32}
Ccids == {41, 42}
\* size of the payload of a track, the totalBytes of its progress reports
TotalBytes(track) == track - 19
\* what session.downloadTrack may return
Triples == { <<trk, uuid, ccid>> : trk \in 0..MaxNewTrack, uuid \in Uuids, ccid \in Ccids }

DownloadIdle ==
    /\ dlPc = [p \in Downloads |-> "idle"]
    /\ dlTrack = [p \in Downloads |-> Undef]
    /\ dlObserver = [p \in Downloads |-> FALSE]
    /\ reports = [p \in Downloads |-> <<>>]
    /\ calls = [p \in Downloads |-> <<>>]
    /\ session = [p \in Downloads |-> "none"]
    /\ produced = [p \in Downloads |-> <<>>]
    /\ dlError = [p \in Downloads |-> "none"]
    /\ dlResult = [p \in Downloads |-> <<>>]
    /\ device \in InitialDevices

\* the call of op is made and answers ok or fails
Invoke(p, op, ok) ==
    /\ calls' = [calls EXCEPT ![p] = Append(@, [op |-> op, ok |-> ok])]
    /\ device' = DeviceEffect(device, p, op, ok)

\* an error leaves download: nothing after the failing call runs
Throw(p, op) ==
    /\ dlPc' = [dlPc EXCEPT ![p] = "threw"]
    /\ dlError' = [dlError EXCEPT ![p] = op]

StartReportsProgress(p) ==
    /\ dlPc[p] = "idle"
    /\ \E track \in MDTracks, observer \in BOOLEAN :
          /\ dlTrack' = [dlTrack EXCEPT ![p] = track]
          /\ dlObserver' = [dlObserver EXCEPT ![p] = observer]
          /\ reports' = [reports EXCEPT ![p] =
                 IF observer THEN <<[writtenBytes |-> 0, totalBytes |-> TotalBytes(track)]>>
                 ELSE <<>>]
    /\ dlPc' = [dlPc EXCEPT ![p] = "sessionKeyForget"]
    /\ UNCHANGED <<calls, session, produced, dlError, dlResult, device>>

\* download(mdIface, track, progressCallback?) is called
Start(p) ==
    /\ dlPc[p] = "idle"
    /\ \E track \in MDTracks, observer \in BOOLEAN :
          /\ dlTrack' = [dlTrack EXCEPT ![p] = track]
          /\ dlObserver' = [dlObserver EXCEPT ![p] = observer]
    /\ dlPc' = [dlPc EXCEPT ![p] = "sessionKeyForget"]
    /\ UNCHANGED <<reports, calls, session, produced, dlError, dlResult, device>>

SessionKeyForgetFatal(p) ==
    /\ dlPc[p] = "sessionKeyForget"
    /\ \E ok \in BOOLEAN :
          /\ Invoke(p, "sessionKeyForget", ok)
          /\ IF ok THEN /\ dlPc' = [dlPc EXCEPT ![p] = "leaveSecureSession"]
                        /\ UNCHANGED dlError
                   ELSE Throw(p, "sessionKeyForget")
    /\ UNCHANGED <<dlTrack, dlObserver, reports, session, produced, dlResult>>

\* try { await sessionKeyForget(); ... } catch { }: a failure skips to acquire
SessionKeyForget(p) ==
    /\ dlPc[p] = "sessionKeyForget"
    /\ \E ok \in BOOLEAN :
          /\ Invoke(p, "sessionKeyForget", ok)
          /\ dlPc' = [dlPc EXCEPT ![p] = IF ok THEN "leaveSecureSession" ELSE "acquire"]
    /\ UNCHANGED <<dlTrack, dlObserver, reports, session, produced, dlError, dlResult>>

\* try { ...; await leaveSecureSession(); } catch { }
LeaveSecureSession(p) ==
    /\ dlPc[p] = "leaveSecureSession"
    /\ \E ok \in BOOLEAN : Invoke(p, "leaveSecureSession", ok)
    /\ dlPc' = [dlPc EXCEPT ![p] = "acquire"]
    /\ UNCHANGED <<dlTrack, dlObserver, reports, session, produced, dlError, dlResult>>

AcquireSwallowed(p) ==
    /\ dlPc[p] = "acquire"
    /\ \E ok \in BOOLEAN : Invoke(p, "acquire", ok)
    /\ dlPc' = [dlPc EXCEPT ![p] = "disableNewTrackProtection"]
    /\ UNCHANGED <<dlTrack, dlObserver, reports, session, produced, dlError, dlResult>>

\* await mdIface.acquire(), outside any try
Acquire(p) ==
    /\ dlPc[p] = "acquire"
    /\ \E ok \in BOOLEAN :
          /\ Invoke(p, "acquire", ok)
          /\ IF ok THEN /\ dlPc' = [dlPc EXCEPT ![p] = "disableNewTrackProtection"]
                        /\ UNCHANGED dlError
                   ELSE Throw(p, "acquire")
    /\ UNCHANGED <<dlTrack, dlObserver, reports, session, produced, dlResult>>

\* try { await disableNewTrackProtection(1); } catch { }
DisableNewTrackProtection(p) ==
    /\ dlPc[p] = "disableNewTrackProtection"
    /\ \E ok \in BOOLEAN : Invoke(p, "disableNewTrackProtection", ok)
    /\ dlPc' = [dlPc EXCEPT ![p] = "sessionInit"]
    /\ UNCHANGED <<dlTrack, dlObserver, reports, session, produced, dlError, dlResult>>

SessionInitReportsClose(p) ==
    /\ dlPc[p] = "sessionInit"
    /\ \E ok \in BOOLEAN :
          /\ Invoke(p, "sessionInit", ok)
          /\ IF ok THEN /\ session' = [session EXCEPT ![p] = "keyed"]
                        /\ dlPc' = [dlPc EXCEPT ![p] = "downloadTrack"]
                        /\ UNCHANGED dlError
                   ELSE /\ session' = [session EXCEPT ![p] = "uninitialized"]
                        /\ Throw(p, "sessionClose")
    /\ UNCHANGED <<dlTrack, dlObserver, reports, produced, dlResult>>

SessionInitSwallowed(p) ==
    /\ dlPc[p] = "sessionInit"
    /\ \E ok \in BOOLEAN :
          /\ Invoke(p, "sessionInit", ok)
          /\ session' = [session EXCEPT ![p] = IF ok THEN "keyed" ELSE "uninitialized"]
    /\ dlPc' = [dlPc EXCEPT ![p] = "downloadTrack"]
    /\ UNCHANGED <<dlTrack, dlObserver, reports, produced, dlError, dlResult>>

\* const session = new MDSession(...); await session.init()
SessionInit(p) ==
    /\ dlPc[p] = "sessionInit"
    /\ \E ok \in BOOLEAN :
          /\ Invoke(p, "sessionInit", ok)
          /\ IF ok THEN /\ session' = [session EXCEPT ![p] = "keyed"]
                        /\ dlPc' = [dlPc EXCEPT ![p] = "downloadTrack"]
                        /\ UNCHANGED dlError
                   ELSE /\ session' = [session EXCEPT ![p] = "uninitialized"]
                        /\ Throw(p, "sessionInit")
    /\ UNCHANGED <<dlTrack, dlObserver, reports, produced, dlResult>>

\* bytes written when the last report was made, 0 before the first
Written(p) == IF reports[p] = <<>> THEN 0 ELSE reports[p][Len(reports[p])].writtenBytes

\* the transfer has written the whole payload (and told the observer, if any)
TransferComplete(p) ==
    IF dlObserver[p] THEN Written(p) = TotalBytes(dlTrack[p]) ELSE TRUE

\* session.downloadTrack writes a further part of the payload and reports it
\* to the progressCallback it was given
Progress(p) ==
    /\ dlPc[p] = "downloadTrack"
    /\ dlObserver[p]
    /\ \E w \in (Written(p) + 1)..TotalBytes(dlTrack[p]) :
          reports' = [reports EXCEPT ![p] =
              Append(@, [writtenBytes |-> w, totalBytes |-> TotalBytes(dlTrack[p])])]
    /\ UNCHANGED <<dlPc, dlTrack, dlObserver, calls, session, produced, dlError, dlResult, device>>

\* const [trk, uuid, ccid] = await session.downloadTrack(track, progressCallback)
DownloadTrack(p) ==
    /\ dlPc[p] = "downloadTrack"
    /\ \/ /\ TransferComplete(p)
          /\ Invoke(p, "downloadTrack", TRUE)
          /\ \E t \in Triples : produced' = [produced EXCEPT ![p] = t]
          /\ dlPc' = [dlPc EXCEPT ![p] = "sessionClose"]
          /\ UNCHANGED dlError
       \/ /\ Invoke(p, "downloadTrack", FALSE)
          /\ Throw(p, "downloadTrack")
          /\ UNCHANGED produced
    /\ UNCHANGED <<dlTrack, dlObserver, reports, session, dlResult>>

\* await session.close()
SessionClose(p) ==
    /\ dlPc[p] = "sessionClose"
    /\ \E ok \in BOOLEAN :
          /\ Invoke(p, "sessionClose", ok)
          /\ IF ok THEN /\ session' = [session EXCEPT ![p] = "closed"]
                        /\ dlPc' = [dlPc EXCEPT ![p] = "release"]
                        /\ UNCHANGED dlError
                   ELSE /\ Throw(p, "sessionClose")
                        /\ UNCHANGED session
    /\ UNCHANGED <<dlTrack, dlObserver, reports, produced, dlResult>>

ReleaseTwice(p) ==
    /\ dlPc[p] = "release"
    /\ \E ok \in BOOLEAN :
          /\ calls' = [calls EXCEPT ![p] =
                 @ \o <<[op |-> "release", ok |-> ok], [op |-> "release", ok |-> ok]>>]
          /\ device' = DeviceEffect(device, p, "release", ok)
          /\ IF ok THEN /\ dlPc' = [dlPc EXCEPT ![p] = "returned"]
                        /\ dlResult' = [dlResult EXCEPT ![p] = produced[p]]
                        /\ UNCHANGED dlError
                   ELSE /\ Throw(p, "release")
                        /\ UNCHANGED dlResult
    /\ UNCHANGED <<dlTrack, dlObserver, reports, session, produced>>

ReleaseSwapsIds(p) ==
    /\ dlPc[p] = "release"
    /\ \E ok \in BOOLEAN :
          /\ Invoke(p, "release", ok)
          /\ IF ok THEN /\ dlPc' = [dlPc EXCEPT ![p] = "returned"]
                        /\ dlResult' = [dlResult EXCEPT ![p] =
                               <<produced[p][1], produced[p][3], produced[p][2]>>]
                        /\ UNCHANGED dlError
                   ELSE /\ Throw(p, "release")
                        /\ UNCHANGED dlResult
    /\ UNCHANGED <<dlTrack, dlObserver, reports, session, produced>>

\* await mdIface.release(); return [trk, uuid, ccid]
Release(p) ==
    /\ dlPc[p] = "release"
    /\ \E ok \in BOOLEAN :
          /\ Invoke(p, "release", ok)
          /\ IF ok THEN /\ dlPc' = [dlPc EXCEPT ![p] = "returned"]
                        /\ dlResult' = [dlResult EXCEPT ![p] = produced[p]]
                        /\ UNCHANGED dlError
                   ELSE /\ Throw(p, "release")
                        /\ UNCHANGED dlResult
    /\ UNCHANGED <<dlTrack, dlObserver, reports, session, produced>>

download(p) ==
    \/ Start(p)
    \/ SessionKeyForget(p)
    \/ LeaveSecureSession(p)
    \/ Acquire(p)
    \/ DisableNewTrackProtection(p)
    \/ SessionInit(p)
    \/ Progress(p)
    \/ DownloadTrack(p)
    \/ SessionClose(p)
    \/ Release(p)

InitDownload == StatusIdle /\ ContentIdle /\ DownloadIdle

Next ==
    /\ download(1)
    /\ UNCHANGED <<statusVars, contentVars>>

Spec == InitDownload /\ [][Next]_vars

InitContent ==
    /\ StatusIdle
    /\ DownloadIdle
    /\ devDisc \in DiscHeaders
    /\ devGroupList \in TrackGroupLists
    /\ lcPc = "getDiscFlags"
    /\ lc = NoLocals
    /\ disc = NoDisc
    /\ lcError = "none"
    /\ lcReads = <<>>
    /\ lcReturn = NoDisc
    /\ trackCountResult = Undef
    /\ tracksResult = <<>>

\* getDeviceStatus(mdIface) has been called on a device in any status
InitStatus ==
    /\ ContentIdle
    /\ DownloadIdle
    /\ devStatus \in StatusBufs
    /\ devPlaybackStatus2 \in PlaybackBufs
    /\ devPosition \in Positions
    /\ devChanges = 0
    /\ status = <<>>
    /\ playbackStatus2 = <<>>
    /\ position = NullPosition
    /\ operatingStatus = 0
    /\ deviceStatus = NoStatus
    /\ dsPc = "getStatus"
    /\ dsError = "none"
    /\ dsReads = <<>>

\* the read is issued and answers, or fails
DsRead(read, ok) == dsReads' = Append(dsReads, [op |-> read, ok |-> ok])

\* a device read that fails: getDeviceStatus throws and stops there
DsThrow(read) ==
    /\ dsPc' = "threw"
    /\ dsError' = read
    /\ DsRead(read, FALSE)
    /\ UNCHANGED <<status, playbackStatus2, position, operatingStatus, deviceStatus>>

\* what no step of getDeviceStatus touches
DsKeep == UNCHANGED <<devStatus, devPlaybackStatus2, devPosition, devChanges,
                      contentVars, downloadVars, device>>

DsGetStatusAcquires ==
    /\ dsPc = "getStatus"
    /\ status' = devStatus
    /\ dsReads' = dsReads \o <<[op |-> "acquire", ok |-> TRUE], [op |-> "getStatus", ok |-> TRUE]>>
    /\ device' = DeviceEffect(device, 1, "acquire", TRUE)
    /\ dsPc' = "getPlaybackStatus2"
    /\ UNCHANGED <<playbackStatus2, position, operatingStatus, deviceStatus, dsError>>
    /\ UNCHANGED <<devStatus, devPlaybackStatus2, devPosition, devChanges, contentVars, downloadVars>>

\* const status = await mdIface.getStatus()
DsGetStatus ==
    /\ dsPc = "getStatus"
    /\ \/ /\ status' = devStatus
          /\ DsRead("getStatus", TRUE)
          /\ dsPc' = "getPlaybackStatus2"
          /\ UNCHANGED <<playbackStatus2, position, operatingStatus, deviceStatus, dsError>>
       \/ DsThrow("getStatus")
    /\ DsKeep

\* const playbackStatus2 = await mdIface.getPlaybackStatus2(), then lines 117-118
DsGetPlaybackStatus2 ==
    /\ dsPc = "getPlaybackStatus2"
    /\ \/ /\ playbackStatus2' = devPlaybackStatus2
          /\ operatingStatus' =
                ComputeOperatingStatus(Get(devPlaybackStatus2, 4), Get(devPlaybackStatus2, 5))
          /\ DsRead("getPlaybackStatus2", TRUE)
          /\ dsPc' = "getPosition"
          /\ UNCHANGED <<status, position, deviceStatus, dsError>>
       \/ DsThrow("getPlaybackStatus2")
    /\ DsKeep

\* const position = await mdIface.getPosition(), then lines 121-142
DsGetPosition ==
    /\ dsPc = "getPosition"
    /\ \/ /\ position' = devPosition
          /\ deviceStatus' = DecodeStatus(status, playbackStatus2, devPosition)
          /\ DsRead("getPosition", TRUE)
          /\ dsPc' = "returned"
          /\ UNCHANGED <<status, playbackStatus2, operatingStatus, dsError>>
       \/ DsThrow("getPosition")
    /\ DsKeep

\* the whole of getDeviceStatus
GetDeviceStatus ==
    \/ DsGetStatus
    \/ DsGetPlaybackStatus2
    \/ DsGetPosition

\* between two reads of a running query the device goes on: playback moves to
\* another state, the disc is taken out, the position advances
DeviceChanges ==
    /\ dsPc \in {"getPlaybackStatus2", "getPosition"}
    /\ devChanges < MaxDeviceChanges
    /\ devChanges' = devChanges + 1
    /\ \/ /\ \E b \in StatusBufs : Len(b) = Len(devStatus) /\ b # devStatus /\ devStatus' = b
          /\ UNCHANGED <<devPlaybackStatus2, devPosition>>
       \/ /\ \E b \in PlaybackBufs :
                /\ Len(b) = Len(devPlaybackStatus2)
                /\ b # devPlaybackStatus2
                /\ devPlaybackStatus2' = b
          /\ UNCHANGED <<devStatus, devPosition>>
       \/ /\ \E q \in Positions : q # devPosition /\ devPosition' = q
          /\ UNCHANGED <<devStatus, devPlaybackStatus2>>
    /\ UNCHANGED <<status, playbackStatus2, position, operatingStatus, deviceStatus, dsPc,
                   dsError, dsReads, contentVars, downloadVars, device>>

NextStatus ==
    \/ GetDeviceStatus
    \/ DeviceChanges

SpecStatus == InitStatus /\ [][NextStatus]_vars
SpecContent == InitContent /\ [][NextContent]_vars

\* one device serving a status query, an enumeration and a download
InitDevice ==
    /\ DownloadIdle
    /\ devStatus = BufOf(MaxBufLen, 64, 0)
    /\ devPlaybackStatus2 = BufOf(MaxBufLen, 195, 117)
    /\ devPosition = NullPosition
    /\ devChanges = 0
    /\ status = <<>>
    /\ playbackStatus2 = <<>>
    /\ position = NullPosition
    /\ operatingStatus = 0
    /\ deviceStatus = NoStatus
    /\ dsPc = "getStatus"
    /\ dsError = "none"
    /\ dsReads = <<>>
    /\ \E h \in { d \in DiscHeaders : d.trackCount = 3 } : devDisc = [h EXCEPT !.trackCount = 1]
    /\ devGroupList = << <<Null, <<0>> >> >>
    /\ lcPc = "getDiscFlags"
    /\ lc = NoLocals
    /\ disc = NoDisc
    /\ lcError = "none"
    /\ lcReads = <<>>
    /\ lcReturn = NoDisc
    /\ trackCountResult = Undef
    /\ tracksResult = <<>>

\* the inputs of a download that runs interleaved with other operations: one
\* track, one resulting triple
TwoInputs(p) ==
    /\ dlTrack'[p] \in {Undef, 21}
    /\ produced'[p] \in {<<>>, <<0, 31, 41>>}

\* the status answers of the device that serves all three operations
DeviceInputs ==
    /\ devStatus' \in {BufOf(MaxBufLen, 64, 0), BufOf(MaxBufLen, 0, 0)}
    /\ devPlaybackStatus2' \in {BufOf(MaxBufLen, 195, 117), BufOf(MaxBufLen, 197, 255)}
    /\ devPosition' \in {NullPosition, [isNull |-> FALSE, tuple |-> <<0, 0, 0, 59, 7>>]}

NextDevice ==
    /\ \/ Next /\ TwoInputs(1)
       \/ NextContent
       \/ NextStatus
    /\ DeviceInputs

SpecDevice == InitDevice /\ [][NextDevice]_vars

\* the device refuses exclusive control while somebody holds it
AcquireRule(p) ==
    (calls'[p] # calls[p] /\ calls'[p][Len(calls'[p])] = [op |-> "acquire", ok |-> TRUE]) =>
        device.exclusive = 0

NextTwo ==
    /\ \E p \in Downloads : download(p) /\ AcquireRule(p) /\ TwoInputs(p)
    /\ UNCHANGED <<statusVars, contentVars>>

SpecTwo == InitDownload /\ [][NextTwo]_vars
(***************************************************************************)
(* Properties of download                                                  *)
(***************************************************************************)
Ended(p) == dlPc[p] \in {"returned", "threw"}
Invoked(p, op) == \E i \in DOMAIN calls[p] : calls[p][i].op = op
Succeeded(p, op) == \E i \in DOMAIN calls[p] : calls[p][i].op = op /\ calls[p][i].ok
Failed(p, op) == \E i \in DOMAIN calls[p] : calls[p][i].op = op /\ ~calls[p][i].ok
Count(p, op) == Cardinality({ i \in DOMAIN calls[p] : calls[p][i].op = op })
\* the call after the i-th is op, or download stands right before calling op
NextInvoked(p, i, op) ==
    IF i < Len(calls[p]) THEN calls[p][i + 1].op = op ELSE dlPc[p] = op

\* C1: a download that ended after a successful acquire has invoked release
\* exactly once, whichever later step failed.
C1_ReleasedExactlyOnce ==
    \A p \in Downloads :
        (Ended(p) /\ Succeeded(p, "acquire")) => Count(p, "release") = 1

\* C2: a download that ended after a successful session.init has invoked
\* session.close exactly once, also when downloadTrack failed.
C2_ClosedExactlyOnce ==
    \A p \in Downloads :
        (Ended(p) /\ Succeeded(p, "sessionInit")) => Count(p, "sessionClose") = 1

\* C3: release is invoked only after session.close succeeded (never while the
\* session is keyed), and a download that ended leaves no session keyed.
C3_ClosedBeforeRelease ==
    \A p \in Downloads :
        /\ \A i \in DOMAIN calls[p] :
              (calls[p][i].op = "release" /\ Succeeded(p, "sessionInit")) =>
                  \E j \in 1..(i - 1) : calls[p][j].op = "sessionClose" /\ calls[p][j].ok
        /\ Ended(p) => session[p] # "keyed"

\* C4: when session.init or downloadTrack failed, the error download throws is
\* that failure; no later failure replaces it.
C4_OriginalErrorSurfaced ==
    \A p \in Downloads :
        /\ Failed(p, "sessionInit") => (dlPc[p] = "threw" /\ dlError[p] = "sessionInit")
        /\ Failed(p, "downloadTrack") => (dlPc[p] = "threw" /\ dlError[p] = "downloadTrack")

C4_Witness ==
    \E p \in Downloads :
        /\ Failed(p, "downloadTrack")
        /\ dlPc[p] = "threw"
        /\ dlError[p] = "downloadTrack"

\* C5: a failure of sessionKeyForget, leaveSecureSession or
\* disableNewTrackProtection is never the error download reports and does not
\* end it: acquire follows a failed step 1, session.init a failed step 3.
C5_BestEffortNeverFatal ==
    \A p \in Downloads :
        /\ dlError[p] \notin {"sessionKeyForget", "leaveSecureSession", "disableNewTrackProtection"}
        /\ \A i \in DOMAIN calls[p] :
              ~calls[p][i].ok =>
                  /\ calls[p][i].op \in {"sessionKeyForget", "leaveSecureSession"} =>
                        NextInvoked(p, i, "acquire")
                  /\ calls[p][i].op = "disableNewTrackProtection" =>
                        NextInvoked(p, i, "sessionInit")

C5_Witness ==
    \E p \in Downloads :
        /\ Failed(p, "sessionKeyForget")
        /\ Succeeded(p, "acquire")
        /\ Failed(p, "disableNewTrackProtection")
        /\ Invoked(p, "sessionInit")

\* C6: when acquire fails download throws the acquire error; that call is the
\* last one made, acquire was called once, and no later operation is invoked.
C6_AcquireFailureStops ==
    \A p \in Downloads :
        \A i \in DOMAIN calls[p] :
            (calls[p][i].op = "acquire" /\ ~calls[p][i].ok) =>
                /\ i = Len(calls[p])
                /\ dlPc[p] = "threw"
                /\ dlError[p] = "acquire"
                /\ Count(p, "acquire") = 1
                /\ \A op \in {"disableNewTrackProtection", "sessionInit", "downloadTrack",
                              "sessionClose", "release"} : Count(p, op) = 0

C6_Witness ==
    \E p \in Downloads :
        /\ Failed(p, "acquire")
        /\ Failed(p, "leaveSecureSession")
        /\ dlPc[p] = "threw"

(***************************************************************************)
(* Properties of getDeviceStatus                                           *)
(***************************************************************************)
\* the byte at offset i as the bitwise operators see it: 0 when absent
RawByte(buf, i) == IF Len(buf) > i THEN buf[i + 1] ELSE 0
RawOperatingStatus == RawByte(playbackStatus2, 4) * 256 + RawByte(playbackStatus2, 5)
RawDiscPresent == Len(status) > 4 /\ status[5] = 64
OperatingStates == {"ready", "playing", "fastForward", "rewind", "readingTOC", "unknown"}

\* C7: for every input getDeviceStatus returns a DeviceStatus, never with
\* discPresent = FALSE and state = playing; a decoded playing without a disc
\* is returned as ready.
C7_DecoderTotalAndNormalized ==
    /\ dsPc = "threw" =>
          /\ dsReads # <<>>
          /\ ~dsReads[Len(dsReads)].ok
          /\ dsError = dsReads[Len(dsReads)].op
    /\ (Len(dsReads) = 3 /\ \A i \in DOMAIN dsReads : dsReads[i].ok) => dsPc = "returned"
    /\ dsPc = "returned" =>
          /\ deviceStatus.discPresent \in BOOLEAN
          /\ deviceStatus.state \in OperatingStates
          /\ position.isNull => (deviceStatus.track = Null /\ deviceStatus.time.isNull)
          /\ ~(deviceStatus.discPresent = FALSE /\ deviceStatus.state = "playing")
          /\ (RawOperatingStatus = 50037 /\ ~RawDiscPresent) => deviceStatus.state = "ready"

C7_Witness ==
    /\ dsPc = "returned"
    /\ Len(status) > 4
    /\ status[5] # 64
    /\ RawOperatingStatus = 50037
    /\ deviceStatus.state = "ready"
    /\ ~deviceStatus.discPresent

\* C8: the operating status is playbackStatus2[4]<<8 | playbackStatus2[5] and
\* the state is its image under the five-entry table, every other value
\* giving unknown (playing being turned into ready when no disc is present).
C8_OperatingStatusTable ==
    dsPc = "returned" =>
        /\ operatingStatus = RawOperatingStatus
        /\ RawOperatingStatus = 50687 => deviceStatus.state = "ready"
        /\ RawOperatingStatus = 50037 =>
              deviceStatus.state = (IF RawDiscPresent THEN "playing" ELSE "ready")
        /\ RawOperatingStatus = 49983 => deviceStatus.state = "fastForward"
        /\ RawOperatingStatus = 49999 => deviceStatus.state = "rewind"
        /\ RawOperatingStatus = 65315 => deviceStatus.state = "readingTOC"
        /\ RawOperatingStatus \notin {50687, 50037, 49983, 49999, 65315} =>
              deviceStatus.state = "unknown"

C8_Witness ==
    /\ dsPc = "returned"
    /\ RawOperatingStatus = 65315
    /\ deviceStatus.state = "readingTOC"

(***************************************************************************)
(* Properties of the content model                                         *)
(***************************************************************************)
\* C9: countTracksInDisc(d) equals the length of getTracks(d), for discs with
\* any number of groups and of tracks per group.
C9_CountEqualsFlattenedLength ==
    lcPc = "inspected" => trackCountResult = Len(tracksResult)

C9_Witness ==
    /\ lcPc = "inspected"
    /\ Len(lcReturn.groups) = 2
    /\ lcReturn.groups[1].tracks = <<>>
    /\ Len(lcReturn.groups[2].tracks) = 2
    /\ trackCountResult = 2

RECURSIVE TracksBefore(_)
\* number of track indices in the entries before the i-th of the group list
TracksBefore(i) ==
    IF i <= 1 THEN 0 ELSE TracksBefore(i - 1) + Len(devGroupList[i - 1][2])

\* C10: the Disc listContent returns has one Group per entry of the track
\* group list, its index being the entry's position, and getTracks gives the
\* tracks in group order then in-group order, Track.index being the device
\* track index found there.
C10_GroupsAndOrderPreserved ==
    lcPc = "inspected" =>
        /\ Len(lcReturn.groups) = Len(devGroupList)
        /\ \A i \in DOMAIN devGroupList :
              /\ lcReturn.groups[i].index = i - 1
              /\ lcReturn.groups[i].title = devGroupList[i][1]
        /\ Len(tracksResult) = TracksBefore(Len(devGroupList) + 1)
        /\ \A i \in DOMAIN devGroupList :
              \A j \in DOMAIN devGroupList[i][2] :
                  tracksResult[TracksBefore(i) + j].index = devGroupList[i][2][j]

C10_Witness ==
    /\ lcPc = "inspected"
    /\ Len(devGroupList) = 2
    /\ devGroupList[1][2] = <<0, 1>>
    /\ devGroupList[2][2] = <<2>>
    /\ Len(tracksResult) = 3
    /\ tracksResult[1].index = 0
    /\ tracksResult[2].index = 1
    /\ tracksResult[3].index = 2
    /\ lcReturn.groups[1].index = 0
    /\ lcReturn.groups[2].index = 1
\* the reads of listContent, in the order it issues them for the group list
ReadOps == {"getDiscFlags", "getDiscTitle", "getDiscCapacity", "getTrackCount",
            "getTrackGroupList", "getTrackTitle", "getTrackEncoding", "getTrackLength",
            "getTrackFlags"}

\* C11: when a read of listContent fails, listContent throws that read's
\* error, the failed read is the last one issued, and the caller has received
\* no Disc; a Disc is returned only when no read failed.
C11_AllOrNothing ==
    /\ \A i \in DOMAIN lcReads :
          ~lcReads[i].ok =>
              /\ i = Len(lcReads)
              /\ lcPc = "threw"
              /\ lcError = lcReads[i].op
              /\ lcReturn = NoDisc
    /\ lcPc = "threw" => (lcReturn = NoDisc /\ lcReads # <<>> /\ ~lcReads[Len(lcReads)].ok)
    /\ lcPc \in {"returned", "inspected"} =>
          /\ lcError = "none"
          /\ Len(lcReads) = 5 + 4 * TracksBefore(Len(devGroupList) + 1)

C11_Witness ==
    /\ lcPc = "threw"
    /\ lcError = "getTrackLength"
    /\ Len(disc.groups) = 2
    /\ Len(lc.tracks) = 1
    /\ lcReturn = NoDisc
\* C12: in a Disc that listContent returns, the track indices over all groups
\* are 0..trackCount-1, each once, and countTracksInDisc gives trackCount.
\* listContent takes trackCount from getTrackCount and the indices from
\* getTrackGroupList and never compares the two.
C12_IndicesCoverTrackCount ==
    lcPc = "inspected" =>
        /\ \A i, j \in DOMAIN tracksResult :
              tracksResult[i].index = tracksResult[j].index => i = j
        /\ { tracksResult[i].index : i \in DOMAIN tracksResult } = 0..(lcReturn.trackCount - 1)
        /\ trackCountResult = lcReturn.trackCount


\* C14: the progress observer is called only during the transfer step, with
\* the session keyed and not yet closed; writtenBytes never decreases from one
\* report to the next; a completed transfer has ended with a report of
\* writtenBytes = totalBytes.
C14_ProgressDuringTransferOnly ==
    /\ [](\A p \in Downloads :
            /\ \A i, j \in DOMAIN reports[p] :
                  i <= j => reports[p][i].writtenBytes <= reports[p][j].writtenBytes
            /\ (Succeeded(p, "downloadTrack") /\ dlObserver[p]) =>
                  /\ reports[p] # <<>>
                  /\ reports[p][Len(reports[p])].writtenBytes =
                        reports[p][Len(reports[p])].totalBytes)
    /\ [][\A p \in Downloads :
            reports'[p] # reports[p] =>
                /\ Succeeded(p, "sessionInit")
                /\ session[p] = "keyed"
                /\ ~Invoked(p, "downloadTrack")
                /\ ~Invoked(p, "sessionClose")
                /\ dlPc[p] = "downloadTrack"]_vars

C14_Witness ==
    \E p \in Downloads :
        /\ Succeeded(p, "downloadTrack")
        /\ Len(reports[p]) = 3
        /\ reports[p][1].writtenBytes = 1
        /\ reports[p][3].writtenBytes = 3
        /\ reports[p][3].totalBytes = 3
\* C15: downloadTrack is reached and invoked only after acquire and
\* session.init succeeded in this download; after a failed session.init it is
\* never invoked.
C15_TransferOnlyWhenKeyed ==
    \A p \in Downloads :
        /\ (dlPc[p] = "downloadTrack" \/ Invoked(p, "downloadTrack") \/ reports[p] # <<>>) =>
              /\ Succeeded(p, "acquire")
              /\ Succeeded(p, "sessionInit")
              /\ session[p] # "uninitialized"
        /\ Failed(p, "sessionInit") =>
              (~Invoked(p, "downloadTrack") /\ dlPc[p] # "downloadTrack")

C15_Witness ==
    \E p \in Downloads :
        /\ Invoked(p, "downloadTrack")
        /\ Succeeded(p, "acquire")
        /\ Succeeded(p, "sessionInit")
        /\ Failed(p, "disableNewTrackProtection")

\* C16: leaveSecureSession is invoked in every download, also when
\* sessionKeyForget failed: a download that got as far as acquire has
\* invoked it.
C16_LeaveAlwaysAttempted ==
    \A p \in Downloads :
        (Invoked(p, "acquire") \/ dlPc[p] = "acquire") => Invoked(p, "leaveSecureSession")

\* the operations of a download in which every call succeeds
CallOrder == <<"sessionKeyForget", "leaveSecureSession", "acquire", "disableNewTrackProtection",
               "sessionInit", "downloadTrack", "sessionClose", "release">>

\* C17: while no call has failed the operations are invoked in the order of
\* CallOrder, each once; such a download returns after all eight, with the
\* triple downloadTrack produced.
C17_OrderAndResult ==
    \A p \in Downloads :
        (\A i \in DOMAIN calls[p] : calls[p][i].ok) =>
            /\ Len(calls[p]) <= Len(CallOrder)
            /\ \A i \in DOMAIN calls[p] : calls[p][i].op = CallOrder[i]
            /\ dlPc[p] = "returned" =>
                  /\ Len(calls[p]) = Len(CallOrder)
                  /\ dlResult[p] = produced[p]
                  /\ dlResult[p] \in Triples
            /\ dlPc[p] # "threw"

C17_Witness ==
    \E p \in Downloads :
        /\ dlPc[p] = "returned"
        /\ \A i \in DOMAIN calls[p] : calls[p][i].ok
        /\ dlResult[p] = <<1, 31, 42>>

\* C18: release is invoked only in a download whose acquire succeeded, and
\* never more often than acquire succeeded.
C18_ReleaseOnlyWhatIsHeld ==
    \A p \in Downloads :
        /\ Invoked(p, "release") => Succeeded(p, "acquire")
        /\ Count(p, "release") <=
              Cardinality({ i \in DOMAIN calls[p] : calls[p][i].op = "acquire" /\ calls[p][i].ok })
        /\ dlPc[p] = "release" => (Succeeded(p, "acquire") /\ ~Invoked(p, "release"))

C18_Witness ==
    \E p \in Downloads :
        /\ Count(p, "release") = 1
        /\ Succeeded(p, "acquire")
        /\ Failed(p, "sessionKeyForget")
(***************************************************************************)
(* Properties of the device state                                          *)
(***************************************************************************)
StatusReadOps == {"getStatus", "getPlaybackStatus2", "getPosition"}

\* C13: getDeviceStatus and listContent issue only read operations and no
\* step of theirs changes who holds exclusive control, the session key or the
\* secure session; every change of that state is made by a call of download.
C13_ReadersLeaveDeviceState ==
    /\ [](/\ \A i \in DOMAIN dsReads : dsReads[i].op \in StatusReadOps
          /\ \A i \in DOMAIN lcReads : lcReads[i].op \in ReadOps)
    /\ [][(dsPc' # dsPc \/ dsReads' # dsReads \/ lcPc' # lcPc \/ lcReads' # lcReads) =>
              device' = device]_vars
    /\ [][device' # device => \E p \in Downloads : Len(calls'[p]) = Len(calls[p]) + 1]_vars

C13_Witness ==
    /\ dsPc = "returned"
    /\ lcPc = "inspected"
    /\ device.exclusive = 1
    /\ device.sessionKey = 1
    /\ Len(lcReads) = 9

\* the call download p made in this step, if it made one
Called(p, op) == calls'[p] # calls[p] /\ calls'[p][Len(calls'[p])].op = op

\* C19: while one download holds exclusive control with a keyed session, the
\* other one invokes neither sessionKeyForget nor leaveSecureSession and
\* changes nothing of the session key and secure session on the device.
C19_SecondKeepsOffSession ==
    [][\A p, q \in Downloads :
          (p # q /\ device.exclusive = q /\ session[q] = "keyed" /\ device.sessionKey = q) =>
              /\ ~Called(p, "sessionKeyForget")
              /\ ~Called(p, "leaveSecureSession")
              /\ (calls'[p] # calls[p] =>
                     /\ device'.sessionKey = device.sessionKey
                     /\ device'.secureSession = device.secureSession)]_vars
====
